---- MODULE Spec2Model ----
(***************************************************************************)
(* Model of the log-tailing pipeline of PerformanceApp (src/main.py):      *)
(* the local file tail (_read_stress_file_tail), the block parser          *)
(* (_parse_stress_lines), the block queue and pacer (_enqueue_block,       *)
(* _maybe_emit_block), the time series, and the operator actions           *)
(* (_on_start, _on_stop, _on_clear).                                       *)
(*                                                                         *)
(* Bytes and text are sequences of tokens.  A token is a record            *)
(* [t, v]: a newline, a carriage return, a space, a noise character, a     *)
(* byte that is not valid UTF-8, or one of the fixed pieces of text the    *)
(* parser's patterns look for.  Time is in whole seconds.  An Optional     *)
(* value that is None is the number None (-1): the patterns only match     *)
(* unsigned numbers and the clock starts at 0, so -1 is never a value.     *)
(***************************************************************************)
EXTENDS Integers, Sequences, FiniteSets, TLC

\* ------------------------------------------------------------------ bounds
MaxTime == 10
MaxOps == 2
MaxFeed == 4
MaxLines == 5
MaxShrink == 2
MaxElapsed == 127
MaxCmds == 3

\* ------------------------------------------------------ program constants
Interval == 5
CoreCount == 7
None == -1

Subsystems == {"CPU", "GPU", "DRAM"}
CoreIds == 0 .. (CoreCount - 1)

\* ------------------------------------------------------------------ tokens
Tok(t, v) == [t |-> t, v |-> v]
NL == Tok("nl", 0)
CR == Tok("cr", 0)
SP == Tok("sp", 0)
X == Tok("x", 0)
BAD == Tok("bad", 0)
HDR == Tok("hdr", 0)
CPU == Tok("cpu", 0)
CORE(c) == Tok("core", c)
DRAM == Tok("dram", 0)
GPU == Tok("gpu", 0)
DONE == Tok("done", 0)
N(x) == Tok("num", x)

VARIABLES
  file, script, written, now,
  file_tail_path, file_tail_pos, file_tail_rem, file_block_idx, file_start_epoch,
  blk_active, blk_cpu_overall, blk_core_vals, blk_dram_val, blk_gpu_val,
  block_queue, next_block_due_epoch, block_timer_active,
  states, core_states, process, line_buffer, failed,
  ops, lines_out, emit_k, last_ts, last_gen, sess_enq, nlines, cur_line, ex2, ex4,
  heap, blk_core_ref, queue_core_refs,
  elapsed_time, scheduled_changes, active_harmonics, target_percent, ramp_calls,
  sc_called, sc_commands, sc_callback, sc_queue, sc_timer, serial_open,
  sc_taken, serial_out, sc_completed,
  adb_available, adb_commands, adb_ran, adb_result

envVars == <<file, script, written>>
tailVars == <<file_tail_path, file_tail_pos, file_tail_rem, file_start_epoch>>
parserVars == <<blk_active, blk_cpu_overall, blk_core_vals, blk_dram_val, blk_gpu_val,
                block_queue, next_block_due_epoch, block_timer_active, file_block_idx>>
seriesVars == <<states, core_states>>
procVars == <<process, line_buffer, failed>>
\* The dict objects behind the core maps: heap[i] is the content of object i,
\* blk_core_ref the object self._blk_core_vals is bound to, queue_core_refs the
\* objects held by the tuples in the queue.  Followed by SpecRefs only.
refVars == <<heap, blk_core_ref, queue_core_refs>>
\* The schedule of target changes; ramp_calls is history: the value the last
\* check applied for each subsystem's ramp in progress (None: no call).
schedVars == <<elapsed_time, scheduled_changes, active_harmonics, target_percent, ramp_calls>>
\* The components beside the monitor; each is followed by its own specification.
\* CommConsole.send_commands: whether it has been called, its arguments (the
\* commands; whether on_complete is given), the closure's queue and timer,
\* whether self._serial is set.  History: sc_taken the commands popped,
\* serial_out the commands written to the port, sc_completed the calls of
\* on_complete.
consoleVars == <<sc_called, sc_commands, sc_callback, sc_queue, sc_timer, serial_open,
                 sc_taken, serial_out, sc_completed>>
\* adb_utils.send_commands: whether adb is installed, what the device answers
\* to each command (exit code, output), and, once the call has returned, the
\* number of commands it ran (history) and what it returned.
adbVars == <<adb_available, adb_commands, adb_ran, adb_result>>
compVars == <<schedVars, consoleVars, adbVars>>
harnessVars == <<nlines, cur_line, ex2, ex4, refVars, compVars>>
vars == <<file, script, written, now,
          file_tail_path, file_tail_pos, file_tail_rem, file_block_idx, file_start_epoch,
          blk_active, blk_cpu_overall, blk_core_vals, blk_dram_val, blk_gpu_val,
          block_queue, next_block_due_epoch, block_timer_active,
          states, core_states, process, line_buffer, failed,
          ops, lines_out, emit_k, last_ts, last_gen, sess_enq, nlines, cur_line, ex2, ex4,
          heap, blk_core_ref, queue_core_refs,
          elapsed_time, scheduled_changes, active_harmonics, target_percent, ramp_calls,
          sc_called, sc_commands, sc_callback, sc_queue, sc_timer, serial_open,
          sc_taken, serial_out, sc_completed,
          adb_available, adb_commands, adb_ran, adb_result>>

\* ------------------------------------------------------- sequence helpers
Last(s) == s[Len(s)]
Front(s) == SubSeq(s, 1, Len(s) - 1)
Max(a, b) == IF a >= b THEN a ELSE b
Min(a, b) == IF a <= b THEN a ELSE b

EmptyMap == [c \in {} |-> 0]
MapPut(m, k, v) == [c \in (DOMAIN m) \cup {k} |-> IF c = k THEN v ELSE m[c]]

\* ----------------------------------------------------------- line reading
\* bytes.split(b"\n"): the pieces between newlines; always at least one piece.
RECURSIVE SplitNL(_)
SplitNL(buf) ==
  IF \A i \in 1 .. Len(buf) : buf[i] # NL THEN <<buf>>
  ELSE LET i == CHOOSE k \in 1 .. Len(buf) :
                  buf[k] = NL /\ \A j \in 1 .. (k - 1) : buf[j] # NL
       IN <<SubSeq(buf, 1, i - 1)>> \o SplitNL(SubSeq(buf, i + 1, Len(buf)))

\* bytes.decode(errors='ignore'): bytes that are not valid UTF-8 are dropped.
Decode(ln) == SelectSeq(ln, LAMBDA b : b # BAD)

\* str.rstrip('\r')
RECURSIVE RStripCR(_)
RStripCR(s) == IF s # <<>> /\ Last(s) = CR THEN RStripCR(Front(s)) ELSE s

\* [ln.decode(errors='ignore').rstrip('\r') for ln in lines[:-1] if ln]
RECURSIVE NewLines(_)
NewLines(pieces) ==
  IF pieces = <<>> THEN <<>>
  ELSE (IF Head(pieces) # <<>> THEN <<RStripCR(Decode(Head(pieces)))>> ELSE <<>>)
         \o NewLines(Tail(pieces))

\* ------------------------------------------------------- pattern matching
IsWs(b) == b = SP \/ b = CR
RECURSIVE SkipWs(_)
SkipWs(s) == IF s # <<>> /\ IsWs(Head(s)) THEN SkipWs(Tail(s)) ELSE s

\* \s*([0-9]+(?:\.[0-9]+)?)% after a label: the number, or None.
NumAfter(s) ==
  LET r == SkipWs(s) IN IF r # <<>> /\ Head(r).t = "num" THEN Head(r).v ELSE None

\* line.startswith('[Monitor] CPU Usage (per core):')
StartsWithHeader(line) == line # <<>> /\ Head(line) = HDR

\* ^\s*cpu:\s*NUM%
MatchCpu(line) ==
  LET r == SkipWs(line) IN IF r # <<>> /\ Head(r) = CPU THEN NumAfter(Tail(r)) ELSE None

\* ^\s*cpu(\d+):\s*NUM%  : <<core id, value>>, or <<>>.
MatchCore(line) ==
  LET r == SkipWs(line)
  IN IF r # <<>> /\ Head(r).t = "core" /\ NumAfter(Tail(r)) # None
     THEN <<Head(r).v, NumAfter(Tail(r))>> ELSE <<>>

\* ^\[Monitor\]\s*DRAM\s*usage:\s*NUM%
MatchDram(line) == IF line # <<>> /\ Head(line) = DRAM THEN NumAfter(Tail(line)) ELSE None

\* ^\[Monitor\]\s*GPU\s*usage:\s*NUM%
MatchGpu(line) == IF line # <<>> /\ Head(line) = GPU THEN NumAfter(Tail(line)) ELSE None

\* not line.strip()
IsBlank(line) == SkipWs(line) = <<>>

\* "Stress test completed" in s
HasDone(line) == \E i \in 1 .. Len(line) : line[i] = DONE

\* ------------------------------------------------- the program's state
\* The tail's and the parser's fields of PerformanceApp, as one record.
T == [file_tail_path |-> file_tail_path, file_tail_pos |-> file_tail_pos,
      file_tail_rem |-> file_tail_rem, file_block_idx |-> file_block_idx,
      file_start_epoch |-> file_start_epoch,
      blk_active |-> blk_active, blk_cpu_overall |-> blk_cpu_overall,
      blk_core_vals |-> blk_core_vals, blk_dram_val |-> blk_dram_val,
      blk_gpu_val |-> blk_gpu_val,
      block_queue |-> block_queue, next_block_due_epoch |-> next_block_due_epoch,
      block_timer_active |-> block_timer_active]

Install(r) ==
  /\ file_tail_path' = r.file_tail_path
  /\ file_tail_pos' = r.file_tail_pos
  /\ file_tail_rem' = r.file_tail_rem
  /\ file_block_idx' = r.file_block_idx
  /\ file_start_epoch' = r.file_start_epoch
  /\ blk_active' = r.blk_active
  /\ blk_cpu_overall' = r.blk_cpu_overall
  /\ blk_core_vals' = r.blk_core_vals
  /\ blk_dram_val' = r.blk_dram_val
  /\ blk_gpu_val' = r.blk_gpu_val
  /\ block_queue' = r.block_queue
  /\ next_block_due_epoch' = r.next_block_due_epoch
  /\ block_timer_active' = r.block_timer_active

\* ------------------------------------------------------------ the parser
\* The tuple _enqueue_block appends; gen is a history field: the number of
\* operator actions (start, stop, clear) that had run when it was committed.
Sample(r, g) ==
  [cpu_overall |-> r.blk_cpu_overall, core_vals |-> r.blk_core_vals,
   dram_val |-> r.blk_dram_val, gpu_val |-> r.blk_gpu_val, gen |-> g]

\* if not self._block_timer.isActive(): the pacer is armed by the first enqueue.
PacerIdle(r) == ~r.block_timer_active

\* Variant: a commit that goes to the head of the queue.
EnqueueBlockAtHead(r, t, g) ==
  LET q == <<Sample(r, g)>> \o r.block_queue
  IN IF PacerIdle(r)
     THEN [r EXCEPT !.block_queue = q, !.file_block_idx = -1,
                    !.next_block_due_epoch = t, !.block_timer_active = TRUE]
     ELSE [r EXCEPT !.block_queue = q]

\* Variant: a commit that never starts the block timer.
EnqueueBlockNoArm(r, t, g) ==
  [r EXCEPT !.block_queue = Append(r.block_queue, Sample(r, g))]

EnqueueBlock(r, t, g) ==
  LET q == Append(r.block_queue, Sample(r, g))
  IN IF PacerIdle(r)
     THEN [r EXCEPT !.block_queue = q, !.file_block_idx = -1,
                    !.next_block_due_epoch = t, !.block_timer_active = TRUE]
     ELSE [r EXCEPT !.block_queue = q]

\* any([cpu_overall is not None, core_vals, dram_val is not None, gpu_val is not None])
HasAnyField(r) ==
  \/ r.blk_cpu_overall # None
  \/ DOMAIN r.blk_core_vals # {}
  \/ r.blk_dram_val # None
  \/ r.blk_gpu_val # None

ResetBlock(r, active) ==
  [r EXCEPT !.blk_active = active, !.blk_cpu_overall = None,
            !.blk_core_vals = EmptyMap, !.blk_dram_val = None, !.blk_gpu_val = None]

\* Variant: a block start flushes the active block even when it is empty.
OnHeaderLineFlushEmpty(r, t, g) ==
  ResetBlock(IF r.blk_active THEN EnqueueBlock(r, t, g) ELSE r, TRUE)

\* Variant: a block start that drops what the active block holds.
OnHeaderLineNoFlush(r, t, g) == ResetBlock(r, TRUE)

\* The block-start branch: flush what the active block holds, start afresh.
OnHeaderLine(r, t, g) ==
  ResetBlock(IF r.blk_active /\ HasAnyField(r) THEN EnqueueBlock(r, t, g) ELSE r, TRUE)

\* Variant: the first value of a block is kept.
SetCpuKeepFirst(r, v) == IF r.blk_cpu_overall = None THEN [r EXCEPT !.blk_cpu_overall = v] ELSE r

SetCpu(r, v) == [r EXCEPT !.blk_cpu_overall = v]
\* Variant: a core id without a series is refused by the parser.
SetCoreInRange(r, cid, v) ==
  IF cid \in CoreIds THEN [r EXCEPT !.blk_core_vals = MapPut(r.blk_core_vals, cid, v)] ELSE r

SetCore(r, cid, v) == [r EXCEPT !.blk_core_vals = MapPut(r.blk_core_vals, cid, v)]
SetDram(r, v) == [r EXCEPT !.blk_dram_val = v]

\* Variant: the GPU value is recorded and the block is left open.
OnGpuLineNoCommit(r, v, t, g) == [r EXCEPT !.blk_gpu_val = v]

\* The GPU branch: record, commit, back to idle.
OnGpuLine(r, v, t, g) == ResetBlock(EnqueueBlock([r EXCEPT !.blk_gpu_val = v], t, g), FALSE)

\* Variant: a blank line commits whatever the active block holds.
BlankCommitsAlways(r, line) == IsBlank(line) /\ r.blk_active

\* The blank-separator branch.  (The second block-start test before it, lines
\* 3019-3026, is never true: a block-start line is taken by the first branch.)
BlankCommits(r, line) ==
  IsBlank(line) /\ r.blk_active /\ (r.blk_dram_val # None \/ r.blk_gpu_val # None)

\* Variant: a line that matches nothing ends the tail.
OnOtherLineStops(r, line, t, g) ==
  IF BlankCommits(r, line) THEN ResetBlock(EnqueueBlock(r, t, g), FALSE)
  ELSE IF IsBlank(line) THEN r ELSE [r EXCEPT !.file_tail_path = FALSE]

\* Variant: a line that matches nothing empties the active block.
OnOtherLineResets(r, line, t, g) ==
  IF BlankCommits(r, line) THEN ResetBlock(EnqueueBlock(r, t, g), FALSE)
  ELSE IF IsBlank(line) THEN r ELSE ResetBlock(r, TRUE)

OnOtherLine(r, line, t, g) ==
  IF BlankCommits(r, line) THEN ResetBlock(EnqueueBlock(r, t, g), FALSE) ELSE r

\* Variant: the patterns are tried whether or not a block is active.
ParseLineAlways(r, line, t, g) ==
  IF StartsWithHeader(line) THEN OnHeaderLine(r, t, g)
  ELSE IF MatchCpu(line) # None THEN SetCpu(r, MatchCpu(line))
  ELSE IF MatchCore(line) # <<>> THEN SetCore(r, MatchCore(line)[1], MatchCore(line)[2])
  ELSE IF MatchDram(line) # None THEN SetDram(r, MatchDram(line))
  ELSE IF MatchGpu(line) # None THEN OnGpuLine(r, MatchGpu(line), t, g)
  ELSE OnOtherLine(r, line, t, g)

\* One iteration of the loop of _parse_stress_lines.
ParseLine(r, line, t, g) ==
  IF StartsWithHeader(line) THEN OnHeaderLine(r, t, g)
  ELSE IF ~r.blk_active THEN r
  ELSE IF MatchCpu(line) # None THEN SetCpu(r, MatchCpu(line))
  ELSE IF MatchCore(line) # <<>> THEN SetCore(r, MatchCore(line)[1], MatchCore(line)[2])
  ELSE IF MatchDram(line) # None THEN SetDram(r, MatchDram(line))
  ELSE IF MatchGpu(line) # None THEN OnGpuLine(r, MatchGpu(line), t, g)
  ELSE OnOtherLine(r, line, t, g)

RECURSIVE ParseStressLines(_, _, _, _)
ParseStressLines(r, lines, t, g) ==
  IF lines = <<>> THEN r
  ELSE ParseStressLines(ParseLine(r, Head(lines), t, g), Tail(lines), t, g)

\* --------------------------------------------------------- the file tail
StopTailFile(r) ==
  [r EXCEPT !.file_tail_path = FALSE, !.file_tail_rem = <<>>, !.file_block_idx = -1]

\* Variant: when the file has shrunk the tail goes on from its new end.
SeekPosToEnd(r, f) == IF Len(f) < r.file_tail_pos THEN Len(f) ELSE r.file_tail_pos

\* if cur_size < self._file_tail_pos: self._file_tail_pos = 0
SeekPos(r, f) == IF Len(f) < r.file_tail_pos THEN 0 ELSE r.file_tail_pos

\* Variant: every poll reads the file from its first byte.
ReadDataFromStart(r, f) == f

\* f.seek(pos); data = f.read()
ReadData(r, f) == SubSeq(f, SeekPos(r, f) + 1, Len(f))

\* The complete lines a poll hands to the parser.
PollLines(r, f) == NewLines(Front(SplitNL(r.file_tail_rem \o ReadData(r, f))))

\* Variant: the bytes after the last newline are not kept.
PollRemLost(r, f) == <<>>

\* Variant: the remainder of the poll before is not put in front of the chunk.
PollRemChunkOnly(r, f) == Last(SplitNL(ReadData(r, f)))

\* The remainder a poll keeps: lines[-1].
PollRem(r, f) == Last(SplitNL(r.file_tail_rem \o ReadData(r, f)))

SawCompletion(lines) == \E i \in 1 .. Len(lines) : HasDone(lines[i])

\* The lines up to and including the first that holds the completion marker.
RECURSIVE UpToMarker(_)
UpToMarker(lines) ==
  IF lines = <<>> THEN <<>>
  ELSE IF HasDone(Head(lines)) THEN <<Head(lines)>>
  ELSE <<Head(lines)>> \o UpToMarker(Tail(lines))

\* Variant: the lines that follow the completion marker are not parsed.
ReadStressFileTailToMarker(r, f, t, g) ==
  IF ~r.file_tail_path THEN r
  ELSE IF ReadData(r, f) = <<>> THEN [r EXCEPT !.file_tail_pos = SeekPos(r, f)]
  ELSE LET lines == PollLines(r, f)
           r1 == [r EXCEPT !.file_tail_pos = SeekPos(r, f) + Len(ReadData(r, f)),
                           !.file_tail_rem = PollRem(r, f)]
           r2 == ParseStressLines(r1, UpToMarker(lines), t, g)
       IN IF SawCompletion(lines) THEN StopTailFile(r2) ELSE r2

ReadStressFileTail(r, f, t, g) ==
  IF ~r.file_tail_path THEN r
  ELSE IF ReadData(r, f) = <<>> THEN [r EXCEPT !.file_tail_pos = SeekPos(r, f)]
  ELSE LET lines == PollLines(r, f)
           r1 == [r EXCEPT !.file_tail_pos = SeekPos(r, f) + Len(ReadData(r, f)),
                           !.file_tail_rem = PollRem(r, f)]
           r2 == ParseStressLines(r1, lines, t, g)
       IN IF SawCompletion(lines) THEN StopTailFile(r2) ELSE r2

\* The lines a call of _read_stress_file_tail parses (none when it returns early).
LinesRead(r, f) ==
  IF r.file_tail_path /\ ReadData(r, f) # <<>> THEN PollLines(r, f) ELSE <<>>

StartReset(r, t) ==
  ResetBlock([r EXCEPT !.file_tail_path = TRUE, !.file_tail_pos = 0,
                       !.file_tail_rem = <<>>, !.file_block_idx = -1,
                       !.file_start_epoch = t], FALSE)

StartTailFile(r, f, t, g) == ReadStressFileTail(StartReset(r, t), f, t, g)

\* ------------------------------------------------------------- the pacer
\* Variant: a tick that does not wait for the due time.
EmitDueNoWait(r, t) == r.block_queue # <<>> /\ r.next_block_due_epoch # None

\* Variant: a tick emits one second before the due time.
EmitDueEarly(r, t) ==
  /\ r.block_queue # <<>>
  /\ r.next_block_due_epoch # None
  /\ t + 1 >= r.next_block_due_epoch

\* The two early returns of _maybe_emit_block.
EmitDue(r, t) ==
  /\ r.block_queue # <<>>
  /\ r.next_block_due_epoch # None
  /\ t >= r.next_block_due_epoch

\* Variant: the timestamp is taken from the wall clock's interval count.
BlockTsOffByOne(epoch, idx) == epoch + Interval * Max(0, idx - 1)

\* block_ts = start_epoch + 5.0 * max(0, self._file_block_idx)
BlockTs(epoch, idx) == epoch + Interval * Max(0, idx)

\* Variant: the value is stored as parsed.
ClampNothing(v) == v

\* max(0, min(100, v))
Clamp(v) == Max(0, Min(100, v))

\* Variant: after an emission the next one is due at once.
AfterEmitDueNow(r, t) ==
  [r EXCEPT !.block_queue = Tail(r.block_queue),
            !.file_block_idx = r.file_block_idx + 1,
            !.next_block_due_epoch = t]

AfterEmit(r, t) ==
  [r EXCEPT !.block_queue = Tail(r.block_queue),
            !.file_block_idx = r.file_block_idx + 1,
            !.next_block_due_epoch = t + Interval]

\* Variant: an absent field is stored as zero.
AppendPointOrZero(series, present, ts, v) ==
  Append(series, <<ts, IF present THEN Clamp(v) ELSE 0>>)

AppendPoint(series, present, ts, v) ==
  IF present THEN Append(series, <<ts, Clamp(v)>>) ELSE series

EmitStates(st, smp, ts) ==
  [n \in Subsystems |->
     IF n = "CPU" THEN AppendPoint(st[n], smp.cpu_overall # None, ts, smp.cpu_overall)
     ELSE IF n = "DRAM" THEN AppendPoint(st[n], smp.dram_val # None, ts, smp.dram_val)
     ELSE AppendPoint(st[n], smp.gpu_val # None, ts, smp.gpu_val)]

\* Variant: the cores are stamped one second after the subsystems.
EmitCoresLate(cs, smp, ts) ==
  [c \in CoreIds |->
     IF c \in DOMAIN smp.core_vals THEN Append(cs[c], <<ts + 1, Clamp(smp.core_vals[c])>>)
     ELSE cs[c]]

EmitCores(cs, smp, ts) ==
  [c \in CoreIds |->
     IF c \in DOMAIN smp.core_vals THEN Append(cs[c], <<ts, Clamp(smp.core_vals[c])>>)
     ELSE cs[c]]

ClearedStates == [n \in Subsystems |-> <<>>]
ClearedCores == [c \in CoreIds |-> <<>>]

\* ------------------------------------------------------- the environment
\* What the stress tool writes to the status file, in the pieces in which it
\* reaches the file: a piece may end in the middle of a line or of a block.
Script1 ==
  << <<HDR, NL, CPU, SP, N(55), NL, CORE(0), SP>>,
     <<N(60), NL, DRAM, SP, N(4), NL, GPU, SP, N(0), NL>>,
     <<HDR, NL, CPU, N(20), NL, GPU, N(5), NL>>,
     <<HDR, NL, GPU, N(7), NL, DONE, NL>> >>

Script2 ==
  << <<HDR, CR, NL, CPU, N(10), CR, NL, HDR, NL, CPU, N(150), NL>>,
     <<CORE(9), N(7), NL, DRAM, N(4), NL, NL, CR, NL>>,
     <<X, NL, GPU, N(5), NL, HDR, NL, GPU, N(0), NL>> >>

Scripts == <<Script1, Script2>>

\* The lines the parser is tried on, one at a time.  The empty line is what
\* the line reader makes of a line that holds only a carriage return.
LineKinds ==
  { <<HDR>>, <<CPU, SP, N(10)>>, <<SP, CPU, N(20)>>, <<CPU, N(30)>>, <<CPU, X>>,
    <<CORE(0), N(60)>>, <<CORE(0), N(70)>>, <<CORE(9), N(7)>>,
    <<DRAM, SP, N(4)>>, <<GPU, SP, N(5)>>, <<GPU, N(0)>>, <<SP, GPU, N(5)>>,
    <<SP>>, <<>>, <<X>> }

\* The bytes the line reader is tried on, one at a time.
FeedBytes == {NL, CR, X, BAD}

\* ----------------------------------------------------------------- Init
\* The subsystems a scheduled change is tried on.
RampKeys == {"DRAM", "GPU"}
NoCalls == [k \in RampKeys |-> None]

\* The schedule as __init__ leaves it: no change scheduled, no ramp, every
\* target at the default of SubsystemState.
ScheduleIdle ==
  /\ elapsed_time = 0
  /\ scheduled_changes = <<>>
  /\ active_harmonics = EmptyMap
  /\ target_percent = [k \in RampKeys |-> 50]
  /\ ramp_calls = NoCalls

\* The console before send_commands is called: the port is open or not.
ConsoleIdle ==
  /\ sc_called = FALSE
  /\ sc_commands = <<>>
  /\ sc_callback = FALSE
  /\ sc_queue = <<>>
  /\ sc_timer = FALSE
  /\ serial_open = FALSE
  /\ sc_taken = <<>>
  /\ serial_out = <<>>
  /\ sc_completed = 0

\* The call has not returned.
NoResult == [code |-> None, out |-> <<>>, err |-> <<>>]

\* No adb call made.
AdbIdle ==
  /\ adb_available = FALSE
  /\ adb_commands = <<>>
  /\ adb_ran = 0
  /\ adb_result = NoResult

\* The monitor's fields as __init__ sets them; tailing is whether the file tail
\* has been started (on a still empty file, at time 0) and o the operator
\* actions so far.
Monitor(tailing, o) ==
  /\ file = <<>>
  /\ script \in 1 .. Len(Scripts)
  /\ written = 0
  /\ now = 0
  /\ file_tail_path = tailing
  /\ file_tail_pos = 0
  /\ file_tail_rem = <<>>
  /\ file_block_idx = -1
  /\ file_start_epoch = 0
  /\ blk_active = FALSE
  /\ blk_cpu_overall = None
  /\ blk_core_vals = EmptyMap
  /\ blk_dram_val = None
  /\ blk_gpu_val = None
  /\ block_queue = <<>>
  /\ next_block_due_epoch = None
  /\ block_timer_active = FALSE
  /\ states = ClearedStates
  /\ core_states = ClearedCores
  /\ process = FALSE
  /\ line_buffer = <<>>
  /\ failed = FALSE
  /\ ops = o
  /\ lines_out = <<>>
  /\ emit_k = 0
  /\ last_ts = None
  /\ last_gen = None
  /\ sess_enq = FALSE
  /\ nlines = 0
  /\ cur_line = <<>>
  /\ ex2 = 0
  /\ ex4 = 0
  /\ heap = <<EmptyMap>>
  /\ blk_core_ref = 1
  /\ queue_core_refs = <<>>

Constructed(tailing, o) == Monitor(tailing, o) /\ ScheduleIdle /\ ConsoleIdle /\ AdbIdle

Init == Constructed(FALSE, 0)

\* -------------------------------------------------------------- actions
\* sess_enq is history: a sample has been enqueued since the running tail was
\* started.  Whether a call that took the state from r0 to r1 enqueued one:
Enqueued(r0, r1) == Len(r1.block_queue) > Len(r0.block_queue)

\* Whether a call of _read_stress_file_tail ends in _stop_tail_file.
PollStops(r, f) == SawCompletion(LinesRead(r, f))

\* The stress tool appends the next piece of its output to the file.
DeviceWrite ==
  /\ written < Len(Scripts[script])
  /\ file' = file \o Scripts[script][written + 1]
  /\ written' = written + 1
  /\ UNCHANGED <<procVars, script, now, tailVars, parserVars, seriesVars, harnessVars,
                 ops, lines_out, emit_k, last_ts, last_gen, sess_enq>>

AdvanceClock ==
  /\ now < MaxTime
  /\ now' = now + 1
  /\ UNCHANGED <<procVars, envVars, tailVars, parserVars, seriesVars, harnessVars,
                 ops, lines_out, emit_k, last_ts, last_gen, sess_enq>>

\* _on_start.  mode is the branch the operator's selection takes: "local"
\* starts the local file tail, "adb" goes through _start_adb_tail (which stops
\* the file tail and starts the adb tail process), "uart" starts no tail.
\* process is whether self.process is set.  failed is history: the tail's
\* source has reported an error since the last start or stop.
OnStart(mode) ==
  /\ ops < MaxOps
  /\ ops' = ops + 1
  /\ states' = ClearedStates
  /\ core_states' = ClearedCores
  /\ LET r0 == [T EXCEPT !.file_tail_path = FALSE, !.file_tail_pos = 0,
                         !.file_tail_rem = <<>>]
     IN CASE mode = "local" ->
               /\ Install(StartTailFile(r0, file, now, ops + 1))
               /\ lines_out' = LinesRead(StartReset(r0, now), file)
               /\ sess_enq' = (Enqueued(r0, StartTailFile(r0, file, now, ops + 1))
                                /\ ~PollStops(StartReset(r0, now), file))
               /\ emit_k' = 0
               /\ last_ts' = None
               /\ UNCHANGED process
          [] mode = "adb" ->
               /\ Install(StopTailFile(r0))
               /\ process' = TRUE
               /\ emit_k' = 0
               /\ last_ts' = None
               /\ sess_enq' = FALSE
               /\ UNCHANGED lines_out
          [] OTHER ->
               /\ Install(r0)
               /\ sess_enq' = FALSE
               /\ UNCHANGED <<process, lines_out, emit_k, last_ts>>
  /\ failed' = FALSE
  /\ UNCHANGED <<envVars, now, harnessVars, line_buffer, last_gen>>

\* _on_stop: _stop_process, which calls _stop_tail_file.
OnStop ==
  /\ ops < MaxOps
  /\ ops' = ops + 1
  /\ Install(StopTailFile(T))
  /\ emit_k' = 0
  /\ last_ts' = None
  /\ sess_enq' = FALSE
  /\ process' = FALSE
  /\ failed' = FALSE
  /\ UNCHANGED <<envVars, now, seriesVars, harnessVars, line_buffer, lines_out, last_gen>>

\* _on_clear
OnClear ==
  /\ ops < MaxOps
  /\ ops' = ops + 1
  /\ states' = ClearedStates
  /\ core_states' = ClearedCores
  /\ Install([T EXCEPT !.file_tail_pos = 0, !.file_tail_rem = <<>>])
  /\ UNCHANGED <<procVars, envVars, now, harnessVars, lines_out, emit_k, last_ts, last_gen, sess_enq>>

\* _read_stress_file_tail, run by the 500 ms timer or by the file watcher.
Poll ==
  /\ Install(ReadStressFileTail(T, file, now, ops))
  /\ lines_out' = lines_out \o LinesRead(T, file)
  /\ sess_enq' = (~PollStops(T, file)
                   /\ (sess_enq \/ Enqueued(T, ReadStressFileTail(T, file, now, ops))))
  /\ emit_k' = IF PollStops(T, file) THEN 0 ELSE emit_k
  /\ last_ts' = IF PollStops(T, file) THEN None ELSE last_ts
  /\ UNCHANGED <<procVars, envVars, now, seriesVars, harnessVars, ops, last_gen>>

\* _maybe_emit_block, run by the 250 ms block timer once it has been started.
PacerTick ==
  /\ block_timer_active
  /\ IF EmitDue(T, now)
     THEN LET smp == Head(block_queue)
              ts == BlockTs(file_start_epoch, file_block_idx + 1)
          IN /\ Install(AfterEmit(T, now))
             /\ states' = EmitStates(states, smp, ts)
             /\ core_states' = EmitCores(core_states, smp, ts)
             /\ emit_k' = emit_k + 1
             /\ last_ts' = ts
             /\ last_gen' = smp.gen
     ELSE UNCHANGED <<tailVars, parserVars, seriesVars, emit_k, last_ts, last_gen>>
  /\ UNCHANGED <<procVars, envVars, now, harnessVars, ops, lines_out, sess_enq>>

Next ==
  \/ DeviceWrite
  \/ AdvanceClock
  \/ \E mode \in {"local", "adb", "uart"} : OnStart(mode)
  \/ OnStop
  \/ OnClear
  \/ Poll
  \/ PacerTick

Spec == Init /\ [][Next]_vars

\* ------------------------------------------------ one session, no operator
\* The local tail has been started (at time 0, on the still empty file) and
\* the operator does nothing further.
InitSession == Constructed(TRUE, 1)
NextSession == DeviceWrite \/ AdvanceClock \/ Poll \/ PacerTick
SpecSession == InitSession /\ [][NextSession]_vars

\* The same session with the scheduling the program relies on: the block
\* timer, once started, fires every 250 ms and is never stopped, so a tick
\* that can emit is eventually taken; and time passes.
SpecLive ==
  InitSession /\ [][NextSession]_vars /\ WF_vars(PacerTick) /\ WF_vars(AdvanceClock)

\* ------------------------------------------- a tail source that fails
\* _read_stress_file_tail when the file cannot be opened or read: the except
\* clause returns.  sized is whether os.path.getsize had succeeded.
PollFails(sized) ==
  /\ file_tail_path
  /\ Install([T EXCEPT !.file_tail_pos = IF sized THEN SeekPos(T, file) ELSE T.file_tail_pos])
  /\ failed' = TRUE
  /\ UNCHANGED <<envVars, now, seriesVars, harnessVars, process, line_buffer,
                 ops, lines_out, emit_k, last_ts, last_gen, sess_enq>>

\* _on_process_finished: the adb tail process has exited; _stop_process.
OnProcessFinished ==
  /\ process
  /\ process' = FALSE
  /\ failed' = TRUE
  /\ Install(StopTailFile(T))
  /\ emit_k' = 0
  /\ last_ts' = None
  /\ sess_enq' = FALSE
  /\ UNCHANGED <<envVars, now, seriesVars, harnessVars, line_buffer, ops, lines_out, last_gen>>

\* _on_process_output: the adb tail process has written the next piece of
\* the status file to its standard output.  expired is whether the run's
\* duration is over, in which case the handler is _on_stop and reads nothing.
OnProcessOutput(expired) ==
  IF expired THEN process /\ OnStop
  ELSE /\ process
       /\ written < Len(Scripts[script])
       /\ written' = written + 1
       /\ line_buffer' = line_buffer \o Scripts[script][written + 1]
       /\ UNCHANGED <<file, script, now, tailVars, parserVars, seriesVars, harnessVars,
                      process, failed, ops, lines_out, emit_k, last_ts, last_gen, sess_enq>>

NextAdb ==
  \/ OnStart("adb")
  \/ \E expired \in BOOLEAN : OnProcessOutput(expired)
  \/ OnProcessFinished
  \/ OnStop
  \/ AdvanceClock
SpecAdb == Init /\ [][NextAdb]_vars

NextFail ==
  \/ Next
  \/ \E sized \in BOOLEAN : PollFails(sized)
  \/ OnProcessFinished
SpecFail == Init /\ [][NextFail]_vars

\* ------------------------------------------ the parser, one line at a time
\* The lines of the two worked examples of the parser.
Example2 == << <<HDR>>, <<CPU, SP, N(10)>>, <<HDR>>, <<SP, CPU, N(20)>>, <<GPU, SP, N(5)>> >>
Example4 == << <<HDR>>, <<CPU, SP, N(10)>>, <<CPU, N(30)>>, <<GPU, N(0)>> >>

\* History: k when the lines parsed so far are exactly the first k lines of
\* the example, None once they are not.
Progress(k, example, line) ==
  IF k # None /\ k < Len(example) /\ example[k + 1] = line THEN k + 1 ELSE None

\* _parse_stress_lines([line])
ParseOne(line) ==
  /\ nlines < MaxLines
  /\ nlines' = nlines + 1
  /\ cur_line' = line
  /\ ex2' = Progress(ex2, Example2, line)
  /\ ex4' = Progress(ex4, Example4, line)
  /\ Install(ParseStressLines(T, <<line>>, now, ops))
  /\ UNCHANGED <<procVars, envVars, now, seriesVars, ops, lines_out, emit_k, last_ts, last_gen,
                 sess_enq, refVars, compVars>>

InitParse == Init /\ script = 1
NextParse == \E line \in LineKinds : ParseOne(line)
SpecParse == InitParse /\ [][NextParse]_vars

\* ------------------------------------ the parser and its dict objects
\* What a step of the parser does to the objects: R is the record of heap,
\* blk (the block's object) and queued (the objects in the queue).
Refs == [heap |-> heap, blk |-> blk_core_ref, queued |-> queue_core_refs]

\* self._blk_core_vals = {}: the block is bound to a new, empty object.
FreshDict(R) == [R EXCEPT !.heap = Append(R.heap, EmptyMap), !.blk = Len(R.heap) + 1]

\* Variant: the tuple holds the block's own object and the block keeps it.
CommitDictShared(R) == [R EXCEPT !.queued = Append(R.queued, R.blk)]

\* _enqueue_block's dict(core_vals), a new object with the same content, in
\* the tuple appended to the queue; then the block's reset to a new object.
CommitDict(R) ==
  FreshDict([R EXCEPT !.heap = Append(R.heap, R.heap[R.blk]),
                      !.queued = Append(R.queued, Len(R.heap) + 1)])

\* self._blk_core_vals[cid] = v: the block's object is changed in place.
StoreInDict(R, cid, v) == [R EXCEPT !.heap[R.blk] = MapPut(R.heap[R.blk], cid, v)]

\* One iteration of the loop of _parse_stress_lines, on the objects; r is the
\* parser's state before the line.
ParseLineRefs(R, r, line) ==
  IF StartsWithHeader(line)
  THEN (IF r.blk_active /\ HasAnyField(r) THEN CommitDict(R) ELSE FreshDict(R))
  ELSE IF ~r.blk_active THEN R
  ELSE IF MatchCpu(line) # None THEN R
  ELSE IF MatchCore(line) # <<>> THEN StoreInDict(R, MatchCore(line)[1], MatchCore(line)[2])
  ELSE IF MatchDram(line) # None THEN R
  ELSE IF MatchGpu(line) # None THEN CommitDict(R)
  ELSE IF BlankCommits(r, line) THEN CommitDict(R)
  ELSE R

ParseOneRefs(line) ==
  /\ nlines < MaxLines
  /\ nlines' = nlines + 1
  /\ cur_line' = line
  /\ ex2' = Progress(ex2, Example2, line)
  /\ ex4' = Progress(ex4, Example4, line)
  /\ Install(ParseStressLines(T, <<line>>, now, ops))
  /\ heap' = ParseLineRefs(Refs, T, line).heap
  /\ blk_core_ref' = ParseLineRefs(Refs, T, line).blk
  /\ queue_core_refs' = ParseLineRefs(Refs, T, line).queued
  /\ UNCHANGED <<procVars, envVars, now, seriesVars, ops, lines_out, emit_k, last_ts, last_gen,
                 sess_enq, compVars>>

NextRefs == \E line \in LineKinds : ParseOneRefs(line)
SpecRefs == InitParse /\ [][NextRefs]_vars

\* The parser fed line by line while the local tail is running.
InitParseTail == Constructed(TRUE, 1) /\ script = 1
SpecParseTail == InitParseTail /\ [][NextParse]_vars

\* -------------------------------------- the line reader, one byte at a time
FeedByte(b) ==
  /\ Len(file) < MaxFeed
  /\ file' = Append(file, b)
  /\ UNCHANGED <<procVars, script, written, now, tailVars, parserVars, seriesVars, harnessVars,
                 ops, lines_out, emit_k, last_ts, last_gen, sess_enq>>

InitFeed == Constructed(TRUE, 1) /\ script = 1
NextFeed == (\E b \in FeedBytes : FeedByte(b)) \/ Poll
SpecFeed == InitFeed /\ [][NextFeed]_vars

\* ------------------------------- the file tail, the file growing by bytes
RECURSIVE Concat(_)
Concat(ss) == IF ss = <<>> THEN <<>> ELSE Head(ss) \o Concat(Tail(ss))

\* All the bytes of a script; here written counts the bytes written so far.
Stream == [s \in 1 .. Len(Scripts) |-> Concat(Scripts[s])]

WriteByte ==
  /\ written < Len(Stream[script])
  /\ file' = Append(file, Stream[script][written + 1])
  /\ written' = written + 1
  /\ UNCHANGED <<procVars, script, now, tailVars, parserVars, seriesVars, harnessVars,
                 ops, lines_out, emit_k, last_ts, last_gen, sess_enq>>

InitChunk == Constructed(TRUE, 1)
NextChunk == WriteByte \/ Poll
SpecChunk == InitChunk /\ [][NextChunk]_vars

\* ------------------------- the file tail, the completion marker mid-stream
\* Output in which lines follow the completion line, written byte by byte;
\* written counts the bytes written so far.
MarkedStream ==
  <<HDR, NL, CPU, N(10), NL, X, DONE, NL, GPU, N(5), NL, DRAM, N(4), NL>>

WriteMarked ==
  /\ written < Len(MarkedStream)
  /\ file' = Append(file, MarkedStream[written + 1])
  /\ written' = written + 1
  /\ UNCHANGED <<procVars, script, now, tailVars, parserVars, seriesVars, harnessVars,
                 ops, lines_out, emit_k, last_ts, last_gen, sess_enq>>

InitMarked == Constructed(TRUE, 1) /\ script = 1
NextMarked == WriteMarked \/ Poll
SpecMarked == InitMarked /\ [][NextMarked]_vars

\* ------------------------------------- the file tail on a file that shrinks
\* The writer truncates the file to its first k bytes (k = 0: it starts the
\* file afresh); written counts these rewrites.
Shrink(k) ==
  /\ written < MaxShrink
  /\ k < Len(file)
  /\ file' = SubSeq(file, 1, k)
  /\ written' = written + 1
  /\ UNCHANGED <<procVars, script, now, tailVars, parserVars, seriesVars, harnessVars,
                 ops, lines_out, emit_k, last_ts, last_gen, sess_enq>>

ShrinkBytes == {NL, X}
NextShrink ==
  \/ \E b \in ShrinkBytes : FeedByte(b)
  \/ \E k \in 0 .. (MaxFeed + 1) : Shrink(k)
  \/ Poll
SpecShrink == InitFeed /\ [][NextShrink]_vars

\* ------------------------------------------- the schedule of target changes
\* Everything of the monitor, which the other components leave alone.
monitorVars == <<envVars, now, tailVars, parserVars, seriesVars, procVars, ops, lines_out,
                 emit_k, last_ts, last_gen, sess_enq, nlines, cur_line, ex2, ex4, refVars>>

\* RAMP_SECS
RampSecs == 120

\* int(round(num / den)) for num >= 0, den > 0: Python rounds a half to even.
RoundHalfEven(num, den) ==
  LET q == num \div den
      r == num % den
  IN IF 2 * r < den THEN q
     ELSE IF 2 * r > den THEN q + 1
     ELSE IF q % 2 = 0 THEN q ELSE q + 1

\* Variant: the interpolated value is cut to an integer, not rounded.
InterpolateTruncated(ramp, e) ==
  (ramp[3] * (ramp[2] - ramp[1]) + (ramp[4] - ramp[3]) * (e - ramp[1])) \div (ramp[2] - ramp[1])

\* cur_val = int(round(start_v + (end_v - start_v) * alpha)), with
\* alpha = (elapsed_time - start_s) / span; ramp is (start_s, end_s, start_v, end_v).
Interpolate(ramp, e) ==
  RoundHalfEven(ramp[3] * (ramp[2] - ramp[1]) + (ramp[4] - ramp[3]) * (e - ramp[1]),
                ramp[2] - ramp[1])

\* The call the first loop makes for the ramp of subsystem k: the value, or None.
RampCall(ah, k, e) ==
  IF k \notin DOMAIN ah THEN None
  ELSE IF e >= ah[k][2] THEN ah[k][4]
  ELSE IF e >= ah[k][1] THEN Interpolate(ah[k], e)
  ELSE None

\* The first loop of _check_scheduled_changes and the deletions after it; S is
\* the record of ah (active_harmonics), tp (the targets) and rest (the
\* changes kept).
RampsApplied(S, e) ==
  [S EXCEPT !.tp = [k \in RampKeys |->
                      IF RampCall(S.ah, k, e) # None THEN RampCall(S.ah, k, e) ELSE S.tp[k]],
            !.ah = [k \in {j \in DOMAIN S.ah : e < S.ah[j][2]} |-> S.ah[k]]]

\* One iteration of the second loop; c is (time_offset, subsystem, target_value, mode).
ChangeChecked(S, c, e) ==
  IF e >= c[1] THEN [S EXCEPT !.tp[c[2]] = c[3]]
  ELSE IF c[4] = "harmonic" /\ e >= Max(0, c[1] - RampSecs) /\ c[2] \notin DOMAIN S.ah
  THEN [S EXCEPT !.ah = MapPut(S.ah, c[2], <<Max(0, c[1] - RampSecs), c[1], S.tp[c[2]], c[3]>>),
                 !.rest = Append(S.rest, c)]
  ELSE [S EXCEPT !.rest = Append(S.rest, c)]

RECURSIVE ChangesChecked(_, _, _)
ChangesChecked(S, cs, e) ==
  IF cs = <<>> THEN S ELSE ChangesChecked(ChangeChecked(S, Head(cs), e), Tail(cs), e)

\* _check_scheduled_changes, run by the 1 s schedule timer of a running test.
CheckScheduledChanges ==
  LET S0 == [ah |-> active_harmonics, tp |-> target_percent, rest |-> <<>>]
      S2 == ChangesChecked(RampsApplied(S0, elapsed_time), scheduled_changes, elapsed_time)
  IN /\ active_harmonics' = S2.ah
     /\ target_percent' = S2.tp
     /\ scheduled_changes' = S2.rest
     /\ ramp_calls' = [k \in RampKeys |-> RampCall(active_harmonics, k, elapsed_time)]
     /\ UNCHANGED <<elapsed_time, monitorVars, consoleVars, adbVars>>

\* Time passes between two checks: one second, or more when a tick is late.
Elapse(d) ==
  /\ elapsed_time + d <= MaxElapsed
  /\ elapsed_time' = elapsed_time + d
  /\ UNCHANGED <<scheduled_changes, active_harmonics, target_percent, ramp_calls, monitorVars,
                 consoleVars, adbVars>>

\* The changes a schedule is made of: the dialog gives times in tenths of a
\* minute, so offsets are multiples of 6 s.
ChangeKinds ==
  {<<t, k, v, m>> : t \in {6, 126}, k \in RampKeys, v \in {0, 35}, m \in {"harmonic", "sudden"}}
Schedules ==
  {<<c>> : c \in ChangeKinds} \cup
  {<<c, d>> : c \in {x \in ChangeKinds : x[4] = "harmonic"}, d \in ChangeKinds}

\* A test has just been started with a schedule loaded.
InitRamp ==
  /\ Monitor(FALSE, 0) /\ script = 1 /\ ConsoleIdle /\ AdbIdle
  /\ elapsed_time = 0
  /\ scheduled_changes \in Schedules
  /\ active_harmonics = EmptyMap
  /\ target_percent = [k \in RampKeys |-> 50]
  /\ ramp_calls = NoCalls
NextRamp == CheckScheduledChanges \/ (\E d \in {1, 2} : Elapse(d))
SpecRamp == InitRamp /\ [][NextRamp]_vars

\* ------------------------------------------------ the console's sequencer
\* The command lists send_commands is tried on.
CommandNames == {"a", "b", "c"}
RECURSIVE SeqsUpTo(_, _)
SeqsUpTo(S, n) ==
  IF n = 0 THEN {<<>>}
  ELSE SeqsUpTo(S, n - 1) \cup {Append(q, x) : q \in SeqsUpTo(S, n - 1), x \in S}

\* Variant: the command sent stays at the head of the queue.
FlushNextKeepsHead(C) ==
  IF C.queue = <<>>
  THEN [C EXCEPT !.timer = FALSE,
                 !.completed = IF C.callback THEN C.completed + 1 ELSE C.completed]
  ELSE [C EXCEPT !.taken = Append(C.taken, Head(C.queue)),
                 !.out = IF C.open THEN Append(C.out, Head(C.queue)) ELSE C.out]

\* _flush_next: on an empty queue stop the timer and call on_complete; else
\* pop the head and write it to the port if one is open.  C is the record of
\* the closure's state.
FlushNext(C) ==
  IF C.queue = <<>>
  THEN [C EXCEPT !.timer = FALSE,
                 !.completed = IF C.callback THEN C.completed + 1 ELSE C.completed]
  ELSE [C EXCEPT !.queue = Tail(C.queue),
                 !.taken = Append(C.taken, Head(C.queue)),
                 !.out = IF C.open THEN Append(C.out, Head(C.queue)) ELSE C.out]

Closure ==
  [queue |-> sc_queue, timer |-> sc_timer, callback |-> sc_callback, open |-> serial_open,
   taken |-> sc_taken, out |-> serial_out, completed |-> sc_completed]

InstallClosure(C) ==
  /\ sc_queue' = C.queue
  /\ sc_timer' = C.timer
  /\ sc_taken' = C.taken
  /\ serial_out' = C.out
  /\ sc_completed' = C.completed

\* send_commands(commands, on_complete=...)
SendCommands(cmds, cb) ==
  /\ ~sc_called
  /\ sc_called' = TRUE
  /\ sc_commands' = cmds
  /\ sc_callback' = cb
  /\ IF cmds = <<>>
     THEN InstallClosure([Closure EXCEPT !.completed = IF cb THEN 1 ELSE 0])
     ELSE InstallClosure(FlushNext([Closure EXCEPT !.queue = cmds, !.timer = TRUE,
                                                   !.callback = cb]))
  /\ UNCHANGED <<serial_open, monitorVars, schedVars, adbVars>>

\* The closure's timer fires.
TimerFlush ==
  /\ sc_timer
  /\ InstallClosure(FlushNext(Closure))
  /\ UNCHANGED <<sc_called, sc_commands, sc_callback, serial_open, monitorVars, schedVars,
                 adbVars>>

\* The port is opened or closed (connect, disconnect, a lost adapter).
PortChange ==
  /\ serial_open' = ~serial_open
  /\ UNCHANGED <<sc_called, sc_commands, sc_callback, sc_queue, sc_timer, sc_taken,
                 serial_out, sc_completed, monitorVars, schedVars, adbVars>>

InitConsole ==
  /\ Monitor(FALSE, 0) /\ script = 1 /\ ScheduleIdle /\ AdbIdle
  /\ sc_called = FALSE
  /\ sc_commands = <<>>
  /\ sc_callback = FALSE
  /\ sc_queue = <<>>
  /\ sc_timer = FALSE
  /\ serial_open \in BOOLEAN
  /\ sc_taken = <<>>
  /\ serial_out = <<>>
  /\ sc_completed = 0
NextConsole ==
  \/ \E cmds \in SeqsUpTo(CommandNames, MaxCmds) : \E cb \in BOOLEAN : SendCommands(cmds, cb)
  \/ TimerFlush
  \/ PortChange
SpecConsole == InitConsole /\ [][NextConsole]_vars

\* ------------------------------------------------- adb_utils.send_commands
\* What the device answers to a command: (exit code, stdout, stderr), the two
\* texts already stripped by _run.
Answers == {<<c, o, e>> : c \in {0, 1, 124}, o \in {<<>>, <<X>>}, e \in {<<>>, <<X>>}}
NOTFOUND == Tok("adb not found", 0)

\* "\n".join(texts)
RECURSIVE JoinNL(_)
JoinNL(texts) ==
  IF texts = <<>> THEN <<>>
  ELSE IF Len(texts) = 1 THEN Head(texts)
  ELSE Head(texts) \o <<NL>> \o JoinNL(Tail(texts))

\* str.strip()
IsSpace(b) == b = SP \/ b = CR \/ b = NL
RECURSIVE LStrip(_)
LStrip(s) == IF s # <<>> /\ IsSpace(Head(s)) THEN LStrip(Tail(s)) ELSE s
RECURSIVE RStrip(_)
RStrip(s) == IF s # <<>> /\ IsSpace(Last(s)) THEN RStrip(Front(s)) ELSE s
Strip(s) == RStrip(LStrip(s))

Returned(code, outs, errs, n) ==
  [code |-> code, out |-> Strip(JoinNL(outs)), err |-> Strip(JoinNL(errs)), ran |-> n]

\* Variant: every command is run and the first failing code is returned at the end.
RECURSIVE CommandLoopRunsAll(_, _, _, _)
CommandLoopRunsAll(cmds, i, outs, errs) ==
  IF i > Len(cmds)
  THEN LET bad == {k \in 1 .. Len(cmds) : cmds[k][1] # 0}
       IN Returned(IF bad = {} THEN 0 ELSE cmds[CHOOSE k \in bad : \A j \in bad : k <= j][1],
                   outs, errs, Len(cmds))
  ELSE CommandLoopRunsAll(cmds, i + 1, Append(outs, cmds[i][2]), Append(errs, cmds[i][3]))

\* The loop of send_commands from its i-th command on.
RECURSIVE CommandLoop(_, _, _, _)
CommandLoop(cmds, i, outs, errs) ==
  IF i > Len(cmds) THEN Returned(0, outs, errs, Len(cmds))
  ELSE LET outs1 == Append(outs, cmds[i][2])
           errs1 == Append(errs, cmds[i][3])
       IN IF cmds[i][1] # 0 THEN Returned(cmds[i][1], outs1, errs1, i)
          ELSE CommandLoop(cmds, i + 1, outs1, errs1)

AdbSendCommands(available, cmds) ==
  IF ~available THEN [code |-> 127, out |-> <<>>, err |-> <<NOTFOUND>>, ran |-> 0]
  ELSE CommandLoop(cmds, 1, <<>>, <<>>)

\* send_commands(serial, commands) is called and returns.
CallAdbSendCommands ==
  /\ adb_result = NoResult
  /\ adb_result' = [code |-> AdbSendCommands(adb_available, adb_commands).code,
                    out |-> AdbSendCommands(adb_available, adb_commands).out,
                    err |-> AdbSendCommands(adb_available, adb_commands).err]
  /\ adb_ran' = AdbSendCommands(adb_available, adb_commands).ran
  /\ UNCHANGED <<adb_available, adb_commands, monitorVars, schedVars, consoleVars>>

InitAdbCall ==
  /\ Monitor(FALSE, 0) /\ script = 1 /\ ScheduleIdle /\ ConsoleIdle
  /\ adb_available \in BOOLEAN
  /\ adb_commands \in SeqsUpTo(Answers, MaxCmds)
  /\ adb_ran = 0
  /\ adb_result = NoResult
NextAdbCall == CallAdbSendCommands
SpecAdbCall == InitAdbCall /\ [][NextAdbCall]_vars

\* ================================================================ claims
\* What a step of the parser is checked against: the fields of the active
\* block before the step, as the sample a commit is expected to enqueue.
ParsedLine == nlines' = nlines + 1
BlockHasField ==
  \/ blk_cpu_overall # None
  \/ blk_core_vals # EmptyMap
  \/ blk_dram_val # None
  \/ blk_gpu_val # None
BlockIsEmpty(active) ==
  /\ blk_active = active
  /\ blk_cpu_overall = None
  /\ blk_core_vals = EmptyMap
  /\ blk_dram_val = None
  /\ blk_gpu_val = None
Committed(cpu, cores, dram, gpu) ==
  [cpu_overall |-> cpu, core_vals |-> cores, dram_val |-> dram, gpu_val |-> gpu, gen |-> ops]

\* ---- C1
Joined(lines) == Concat([i \in 1 .. Len(lines) |-> lines[i] \o <<NL>>])

\* C1 (as claimed): the lines handed to the parser, each followed by a
\* newline, followed by the held remainder, are exactly the bytes read so far.
C1_RoundTrip == Joined(lines_out) \o file_tail_rem = SubSeq(file, 1, file_tail_pos)

\* ---- C2
C2_FlushStep ==
  (ParsedLine /\ StartsWithHeader(cur_line')) =>
     /\ block_queue' =
          IF blk_active /\ BlockHasField
          THEN Append(block_queue,
                      Committed(blk_cpu_overall, blk_core_vals, blk_dram_val, blk_gpu_val))
          ELSE block_queue
     /\ BlockIsEmpty(TRUE)'
C2_Example ==
  ex2 = Len(Example2) =>
     block_queue = << Committed(10, EmptyMap, None, None), Committed(20, EmptyMap, None, 5) >>
\* C2: a block-start line that arrives while a block with at least one
\* recorded field is active enqueues exactly that block's fields, and every
\* block-start line leaves an active block with no field; an active block with
\* no field is not enqueued.  The lines START, cpu 10, START, cpu 20, gpu 5
\* commit exactly {cpu 10} and then {cpu 20, gpu 5}.
C2_FlushOnRestart == [][C2_FlushStep]_vars /\ []C2_Example
\* C2 witness: the second START of the example has just flushed {cpu 10}.
C2_Witness ==
  /\ ex2 = 3
  /\ block_queue = << Committed(10, EmptyMap, None, None) >>
  /\ BlockIsEmpty(TRUE)

\* ---- C3
C3_GpuStep ==
  (ParsedLine /\ blk_active /\ MatchGpu(cur_line') # None) =>
     /\ block_queue' =
          Append(block_queue,
                 Committed(blk_cpu_overall, blk_core_vals, blk_dram_val, MatchGpu(cur_line')))
     /\ BlockIsEmpty(FALSE)'
\* C3: a line matching the GPU pattern while a block is active records the
\* value, enqueues exactly one sample (the block's other fields as they are,
\* absent ones absent) and leaves the parser idle with an empty block.
C3_GpuEndsBlock == [][C3_GpuStep]_vars
\* C3 witness: a GPU line committed a block that had no other field.
C3_Witness ==
  /\ MatchGpu(cur_line) = 5
  /\ block_queue = << Committed(None, EmptyMap, None, 5) >>
  /\ BlockIsEmpty(FALSE)

\* ---- C4
C4_OverwriteStep ==
  (ParsedLine /\ blk_active /\ ~StartsWithHeader(cur_line')) =>
     /\ MatchCpu(cur_line') # None =>
          /\ blk_cpu_overall' = MatchCpu(cur_line')
          /\ UNCHANGED <<blk_active, blk_core_vals, blk_dram_val, blk_gpu_val, block_queue>>
     /\ (MatchCpu(cur_line') = None /\ MatchCore(cur_line') # <<>>) =>
          /\ DOMAIN blk_core_vals' = DOMAIN blk_core_vals \cup {MatchCore(cur_line')[1]}
          /\ \A c \in DOMAIN blk_core_vals' :
               blk_core_vals'[c] = IF c = MatchCore(cur_line')[1]
                                   THEN MatchCore(cur_line')[2] ELSE blk_core_vals[c]
          /\ UNCHANGED <<blk_active, blk_cpu_overall, blk_dram_val, blk_gpu_val, block_queue>>
     /\ (MatchCpu(cur_line') = None /\ MatchCore(cur_line') = <<>>
           /\ MatchDram(cur_line') # None) =>
          /\ blk_dram_val' = MatchDram(cur_line')
          /\ UNCHANGED <<blk_active, blk_cpu_overall, blk_core_vals, blk_gpu_val, block_queue>>
C4_Example ==
  ex4 = Len(Example4) => block_queue = << Committed(30, EmptyMap, None, 0) >>
\* C4: inside an active block a matching line overwrites its field with its
\* own value (overall CPU, the core id it names, DRAM) and touches no other
\* field, so a committed sample holds the last value of each field.  The
\* lines START, cpu 10, cpu 30, gpu 0 commit cpu_overall = 30.
C4_LastWriteWins == [][C4_OverwriteStep]_vars /\ []C4_Example
\* C4 witness: the second cpu line of the example has replaced 10 by 30.
C4_Witness == ex4 = 3 /\ blk_active /\ blk_cpu_overall = 30

\* ---- C5
SeriesGrows ==
  \/ \E n \in Subsystems : Len(states'[n]) > Len(states[n])
  \/ \E c \in CoreIds : Len(core_states'[c]) > Len(core_states[c])
SeriesGrowByOne ==
  /\ \A n \in Subsystems : Len(states'[n]) <= Len(states[n]) + 1
  /\ \A c \in CoreIds : Len(core_states'[c]) <= Len(core_states[c]) + 1

C5_EmitStep ==
  /\ Len(block_queue') >= Len(block_queue) - 1
  /\ SeriesGrowByOne
  /\ (Len(block_queue') < Len(block_queue) \/ SeriesGrows) =>
       /\ block_queue # <<>>
       /\ next_block_due_epoch # None
       /\ now >= next_block_due_epoch
       /\ block_queue' = Tail(block_queue)
\* C5: no step takes more than one sample from the queue or adds more than
\* one point to a series, and a step that takes a sample or adds a point
\* starts with a non-empty queue and a due time that the clock has reached.
C5_EmissionGuard == [][C5_EmitStep]_vars
\* C5 witness: a tick has emitted one sample of a backlog and the next tick,
\* before the due time, finds the rest still queued.
C5_Witness ==
  /\ emit_k = 1
  /\ Len(block_queue) >= 1
  /\ now < next_block_due_epoch
  /\ states["GPU"] # <<>>

\* ---- C6
C6_Stamp ==
  emit_k >= 1 =>
     /\ last_ts = file_start_epoch + Interval * (emit_k - 1)
     /\ file_block_idx = emit_k - 1
C6_EmitStep ==
  (emit_k' = emit_k + 1) =>
     /\ \A n \in Subsystems :
          Len(states'[n]) > Len(states[n]) =>
            Last(states'[n])[1] = file_start_epoch + Interval * emit_k
     /\ \A c \in CoreIds :
          Len(core_states'[c]) > Len(core_states[c]) =>
            Last(core_states'[c])[1] = file_start_epoch + Interval * emit_k
     /\ file_block_idx' = file_block_idx + 1
NonDecreasing(series) ==
  \A i \in 1 .. (Len(series) - 1) : series[i][1] <= series[i + 1][1]

\* C7 (as claimed): in every series the timestamps are non-decreasing in
\* append order.
C7_Monotone ==
  /\ \A n \in Subsystems : NonDecreasing(states[n])
  /\ \A c \in CoreIds : NonDecreasing(core_states[c])

\* ---- C8
C8_StopStep == OnStop => (block_queue' = <<>> /\ ~block_timer_active')
\* C8 (as claimed): a stop leaves the block queue empty and the pacer idle.
C8_StopDiscards == [][C8_StopStep]_vars

\* ---- C9
C9_EmitStep == (PacerTick /\ EmitDue(T, now)) => Head(block_queue).gen = ops
\* C9 (as claimed): a sample that is appended to the series was committed
\* after the last start, stop or clear.
C9_NoStraddle == [][C9_EmitStep]_vars

\* ---- C10
\* C10 (as claimed): once the running tail has enqueued a sample and nothing
\* has been emitted since it was started, the pacer's due time has been
\* reached, so the next tick emits.
C10_FirstImmediate ==
  (file_tail_path /\ sess_enq /\ emit_k = 0) =>
     (next_block_due_epoch # None /\ next_block_due_epoch <= now)

\* ---- C11
\* The samples a script commits when all of it is parsed in one call.
IdleParser ==
  [file_tail_path |-> TRUE, file_tail_pos |-> 0, file_tail_rem |-> <<>>,
   file_block_idx |-> -1, file_start_epoch |-> 0,
   blk_active |-> FALSE, blk_cpu_overall |-> None, blk_core_vals |-> EmptyMap,
   blk_dram_val |-> None, blk_gpu_val |-> None,
   block_queue |-> <<>>, next_block_due_epoch |-> None, block_timer_active |-> FALSE]
WholeScript ==
  [s \in 1 .. Len(Scripts) |->
     ParseStressLines(IdleParser, NewLines(Front(SplitNL(Concat(Scripts[s])))), 0, 1).block_queue]

IsPrefix(a, b) == Len(a) <= Len(b) /\ SubSeq(b, 1, Len(a)) = a
SeriesVals(series) == [i \in 1 .. Len(series) |-> series[i][2]]
FieldOf(smp, n) ==
  IF n = "CPU" THEN smp.cpu_overall ELSE IF n = "DRAM" THEN smp.dram_val ELSE smp.gpu_val
\* The values the samples of q put into the series of subsystem n / core c.
SubsysVals(q, n) ==
  LET sel == SelectSeq(q, LAMBDA smp : FieldOf(smp, n) # None)
  IN [i \in 1 .. Len(sel) |-> Clamp(FieldOf(sel[i], n))]
CoreVals(q, c) ==
  LET sel == SelectSeq(q, LAMBDA smp : c \in DOMAIN smp.core_vals)
  IN [i \in 1 .. Len(sel) |-> Clamp(sel[i].core_vals[c])]

C11_InOrder ==
  ops <= 1 =>
     /\ \A n \in Subsystems :
          IsPrefix(SeriesVals(states[n]) \o SubsysVals(block_queue, n),
                   SubsysVals(WholeScript[script], n))
     /\ \A c \in CoreIds :
          IsPrefix(SeriesVals(core_states[c]) \o CoreVals(block_queue, c),
                   CoreVals(WholeScript[script], c))
C11_QueueStep ==
  \/ /\ IsPrefix(block_queue, block_queue')
     /\ ~SeriesGrows
  \/ /\ block_queue # <<>>
     /\ block_queue' = Tail(block_queue)
     /\ \A n \in Subsystems :
          SeriesVals(states'[n]) = SeriesVals(states[n]) \o SubsysVals(<<Head(block_queue)>>, n)
     /\ \A c \in CoreIds :
          SeriesVals(core_states'[c]) =
            SeriesVals(core_states[c]) \o CoreVals(<<Head(block_queue)>>, c)
\* C11: a step either appends to the tail of the queue and emits nothing, or
\* takes the head of the queue and appends exactly that sample's values to
\* the series; and while nothing but one start has happened, each series
\* followed by what is still queued for it is a prefix of what the script
\* commits, in commit order.
C11_FifoNoLoss == []C11_InOrder /\ [][C11_QueueStep]_vars
\* C11 witness: a poll enqueued two samples at once (overall CPU 55, then
\* 20), the first has been emitted and the second is still queued.
C11_Witness ==
  /\ ops = 1
  /\ SeriesVals(states["CPU"]) = <<55>>
  /\ Len(block_queue) >= 1
  /\ Head(block_queue).cpu_overall = 20

\* ---- C12
\* What the claim says is stored for a sample value v.
StoredFor(v) == IF v > 100 THEN 100 ELSE IF v < 0 THEN 0 ELSE v
ClampInputs == {-5, -2, 0, 1, 50, 99, 100, 101, 150}
C12_InRange ==
  /\ \A n \in Subsystems : \A i \in 1 .. Len(states[n]) :
        states[n][i][2] >= 0 /\ states[n][i][2] <= 100
  /\ \A c \in CoreIds : \A i \in 1 .. Len(core_states[c]) :
        core_states[c][i][2] >= 0 /\ core_states[c][i][2] <= 100
  /\ \A v \in ClampInputs : Clamp(v) = StoredFor(v)
C12_StoreStep ==
  (PacerTick /\ EmitDue(T, now)) =>
     /\ \A n \in Subsystems :
          FieldOf(Head(block_queue), n) # None =>
            Last(states'[n])[2] = StoredFor(FieldOf(Head(block_queue), n))
     /\ \A c \in CoreIds \cap DOMAIN Head(block_queue).core_vals :
          Last(core_states'[c])[2] = StoredFor(Head(block_queue).core_vals[c])
\* C12: every value in every subsystem or core series lies in [0, 100]; an
\* emission stores 100 for a sample value above 100, 0 for one below 0 and
\* the value itself otherwise.
C12_Clamping == []C12_InRange /\ [][C12_StoreStep]_vars
\* C12 witness: the sample with overall CPU 150 is stored as 100.
C12_Witness ==
  /\ script = 2
  /\ Len(states["CPU"]) = 2
  /\ states["CPU"][2][2] = 100
  /\ last_ts # None

\* ---- C13
IsStale(series, ts) == series # <<>> /\ ts < Last(series)[1]
C13_StaleStep ==
  (PacerTick /\ EmitDue(T, now)) =>
     LET ts == BlockTs(file_start_epoch, file_block_idx + 1)
     IN /\ \A n \in Subsystems : IsStale(states[n], ts) => states'[n] = states[n]
        /\ \A c \in CoreIds : IsStale(core_states[c], ts) => core_states'[c] = core_states[c]
\* C13 (as claimed): an emission whose timestamp is older than the last
\* timestamp of a series leaves that series unchanged.
C13_StaleDropped == [][C13_StaleStep]_vars

\* ---- C14
C14_PollStep ==
  (Poll /\ file_tail_path /\ Len(file) < file_tail_pos) =>
     /\ file_tail_pos' = Len(file)
     /\ file_tail_path'
     /\ file # <<>> =>
          /\ file_tail_rem' = Last(SplitNL(file_tail_rem \o file))
          /\ lines_out' = lines_out \o NewLines(Front(SplitNL(file_tail_rem \o file)))
     /\ file = <<>> => UNCHANGED <<file_tail_rem, lines_out>>
\* C14: a poll that finds the file shorter than the remembered offset reads
\* the file from byte 0 to its end: the offset becomes the file's length,
\* the bytes handed on are the whole file, and the tail keeps running.
C14_TruncationReset == [][C14_PollStep]_vars
\* C14 witness: a file of two lines was read, cut to its first line and
\* polled again: the first line has been read a second time.
C14_Witness ==
  /\ written = 1
  /\ file = <<X, NL>>
  /\ file_tail_path
  /\ file_tail_pos = 2
  /\ lines_out = << <<X>>, <<X>>, <<X>> >>

\* ---- C15
\* C15 (as claimed): once the tail's source has reported an error the tail
\* is stopped, the pacer is stopped and nothing is left in the queue.
C15_FailureEnds ==
  failed => (~file_tail_path /\ ~block_timer_active /\ block_queue = <<>>)

\* ---- C16
\* The timestamps of the points a step appends.
NewStamps ==
  {Last(states'[n])[1] : n \in {m \in Subsystems : Len(states'[m]) > Len(states[m])}}
    \cup {Last(core_states'[c])[1] :
            c \in {d \in CoreIds : Len(core_states'[d]) > Len(core_states[d])}}
C16_EmitStep == SeriesGrowByOne /\ Cardinality(NewStamps) <= 1
\* C16: the points appended by one emission all carry one timestamp, and an
\* emission appends at most one point to each series.
C16_OneTimestamp == [][C16_EmitStep]_vars
\* C16 witness: one emission has put overall CPU, core 0, DRAM and GPU into
\* their series with one timestamp.
C16_Witness ==
  /\ Len(states["CPU"]) = 1 /\ Len(states["DRAM"]) = 1 /\ Len(states["GPU"]) = 1
  /\ Len(core_states[0]) = 1
  /\ states["CPU"][1][1] = states["GPU"][1][1]
  /\ states["DRAM"][1][1] = states["GPU"][1][1]
  /\ core_states[0][1][1] = states["GPU"][1][1]
  /\ block_queue = <<>>

\* ---- C17
\* The bytes read so far, handed to the line reader and the parser in one call.
InOneCall ==
  LET pieces == SplitNL(SubSeq(file, 1, file_tail_pos))
  IN [rem |-> Last(pieces),
      parsed |-> ParseStressLines(IdleParser, NewLines(Front(pieces)), 0, 1)]
\* C17: however the polls have cut the bytes read so far into chunks, the
\* queue, the active block and (while the tail runs) the held partial line
\* are what one call on all those bytes gives.
C17_ChunkIndependent ==
  LET one == InOneCall
  IN /\ block_queue = one.parsed.block_queue
     /\ blk_active = one.parsed.blk_active
     /\ blk_cpu_overall = one.parsed.blk_cpu_overall
     /\ blk_core_vals = one.parsed.blk_core_vals
     /\ blk_dram_val = one.parsed.blk_dram_val
     /\ blk_gpu_val = one.parsed.blk_gpu_val
     /\ file_tail_path => file_tail_rem = one.rem
\* C17 witness: the polls so far ended in the middle of a line of the second
\* block, after the first block was committed and with a field of the
\* second recorded.
C17_Witness ==
  /\ file_tail_rem # <<>>
  /\ file_tail_pos = Len(file)
  /\ blk_active
  /\ blk_cpu_overall # None
  /\ Len(block_queue) = 1

\* ---- C18
\* C18 (as claimed): the samples committed for the bytes the adb tail has
\* delivered are those the line reader and the parser of the local file
\* tail commit for the same bytes.
C18_SamePipeline ==
  block_queue =
    ParseStressLines(IdleParser, NewLines(Front(SplitNL(line_buffer))), 0, ops).block_queue

\* ---- C19
C19_EmitStep ==
  (PacerTick /\ EmitDue(T, now)) =>
     /\ \A n \in Subsystems :
          FieldOf(Head(block_queue), n) = None => states'[n] = states[n]
     /\ \A c \in CoreIds :
          c \notin DOMAIN Head(block_queue).core_vals => core_states'[c] = core_states[c]
\* C19: an emission leaves unchanged the series of every field its sample
\* does not have: overall CPU, DRAM, GPU, and every core not in the sample.
C19_AbsentStaysAbsent == [][C19_EmitStep]_vars
\* C19 witness: the second sample (overall CPU 20, GPU 5, no DRAM, no core)
\* has been emitted: the DRAM and core 0 series still hold one point.
C19_Witness ==
  /\ Len(states["CPU"]) = 2 /\ states["CPU"][2][2] = 20
  /\ Len(states["GPU"]) = 2 /\ states["GPU"][2][2] = 5
  /\ Len(states["DRAM"]) = 1
  /\ Len(core_states[0]) = 1

\* ---- C20
C20_BlankStep ==
  (ParsedLine /\ blk_active /\ IsBlank(cur_line')) =>
     IF blk_dram_val # None \/ blk_gpu_val # None
     THEN /\ block_queue' =
               Append(block_queue,
                      Committed(blk_cpu_overall, blk_core_vals, blk_dram_val, blk_gpu_val))
          /\ BlockIsEmpty(FALSE)'
     ELSE UNCHANGED <<blk_active, blk_cpu_overall, blk_core_vals, blk_dram_val,
                      blk_gpu_val, block_queue>>
\* C20: a blank line parsed while a block is active commits the block and
\* leaves the parser idle when DRAM or GPU is recorded, and changes neither
\* the block nor the queue when neither is.
C20_BlankLineCommit == [][C20_BlankStep]_vars
\* C20 witness: a blank line has committed a block that held overall CPU and
\* DRAM and no GPU.
C20_Witness ==
  /\ nlines = 4
  /\ IsBlank(cur_line)
  /\ block_queue = << Committed(10, EmptyMap, 4, None) >>
  /\ BlockIsEmpty(FALSE)

\* ---- C21
\* The sample of the second script that carries a value for core 9, a core
\* without a series.
OutOfRangeSample == WholeScript[2][2]
C21_Accepted ==
  (script = 2 /\ written >= 2 /\ file_tail_pos = Len(file) /\ emit_k <= 1) =>
     /\ \E i \in 1 .. Len(block_queue) : block_queue[i] = OutOfRangeSample
     /\ 9 \in DOMAIN OutOfRangeSample.core_vals
     /\ 9 \notin CoreIds
C21_EmitStep ==
  (PacerTick /\ EmitDue(T, now)) =>
     LET smp == Head(block_queue)
     IN /\ DOMAIN core_states' = CoreIds
        /\ \A n \in Subsystems :
             FieldOf(smp, n) # None =>
               /\ Len(states'[n]) = Len(states[n]) + 1
               /\ Last(states'[n])[2] = StoredFor(FieldOf(smp, n))
        /\ \A c \in CoreIds \cap DOMAIN smp.core_vals :
             /\ Len(core_states'[c]) = Len(core_states[c]) + 1
             /\ Last(core_states'[c])[2] = StoredFor(smp.core_vals[c])
        /\ \A c \in CoreIds \ DOMAIN smp.core_vals : core_states'[c] = core_states[c]
\* C21: a per-core line naming a core that has no series is recorded in the
\* block and committed with it; the emission of such a sample adds no series,
\* stores nothing for that core and appends every other field of the sample.
C21_OutOfRangeCore == []C21_Accepted /\ [][C21_EmitStep]_vars
\* C21 witness: the sample with core 9 has been emitted: its overall CPU
\* (stored as 100) and its DRAM value are in their series.
C21_Witness ==
  /\ script = 2
  /\ emit_k = 2
  /\ SeriesVals(states["CPU"]) = <<10, 100>>
  /\ SeriesVals(states["DRAM"]) = <<4>>
  /\ \A c \in CoreIds : core_states[c] = <<>>

\* ---- C22
C22_StartStep ==
  ((\E mode \in {"local", "adb", "uart"} : OnStart(mode)) /\ block_queue' # <<>>) =>
     /\ file_start_epoch' = now
     /\ file_block_idx' = -1
C22_FirstStep ==
  (PacerTick /\ EmitDue(T, now) /\ emit_k = 0) =>
     /\ file_block_idx' = 0
     /\ \A n \in Subsystems :
          Len(states'[n]) > Len(states[n]) => Last(states'[n])[1] = file_start_epoch
\* C22 (as claimed): a start with a sample waiting to be emitted sets the
\* start epoch to the time of the start and restarts the block index, and
\* the first emission that follows is stamped with that epoch.
C22_RestartRebases == [][C22_StartStep /\ C22_FirstStep]_vars

\* ---- C23
\* The complete lines of the file, as the reader renders them.
FileLines == NewLines(Front(SplitNL(file)))
\* C23 (as claimed): the lines handed to the parser since the tail was started
\* are the file's complete lines, in order, each at most once: at any time
\* they are a prefix of the lines of the file, which only grows here.
C23_NoLineTwice == IsPrefix(lines_out, FileLines)

\* ---- C24
\* The bytes of the file before the remembered offset.
BytesBefore == SubSeq(file, 1, file_tail_pos)
C24_Delivered ==
  /\ file_tail_path
  /\ file_tail_pos <= Len(file)
  /\ lines_out = NewLines(Front(SplitNL(BytesBefore)))
  /\ file_tail_rem = Last(SplitNL(BytesBefore))
C24_PollStep ==
  Poll => LET data == SubSeq(file, file_tail_pos + 1, Len(file))
          IN /\ file_tail_pos' = file_tail_pos + Len(data)
             /\ file_tail_pos' = Len(file)
             /\ lines_out' = lines_out \o NewLines(Front(SplitNL(file_tail_rem \o data)))
\* C24: while the file only grows, what the tail has delivered (the lines
\* handed on and the remainder held back) is exactly the bytes before the
\* offset, each once and in file order; every poll reads the bytes from the
\* offset to the end of the file and moves the offset there, however polls
\* and writes interleave.
C24_ExactlyOnce == []C24_Delivered /\ [][C24_PollStep]_vars
C24_Witness ==
  /\ Len(file) = MaxFeed
  /\ file_tail_pos = MaxFeed
  /\ lines_out = <<<<X>>>>
  /\ file_tail_rem = <<X>>

\* ---- C25
HasNL(buf) == \E i \in 1 .. Len(buf) : buf[i] = NL
\* The bytes of buf after its last newline (all of buf when it has none).
AfterLastNL(buf) ==
  IF ~HasNL(buf) THEN buf
  ELSE LET i == CHOOSE k \in 1 .. Len(buf) :
                  buf[k] = NL /\ \A j \in (k + 1) .. Len(buf) : buf[j] # NL
       IN SubSeq(buf, i + 1, Len(buf))
C25_Step ==
  LET chunk == SubSeq(file, file_tail_pos + 1, Len(file))
  IN (Poll /\ file_tail_path /\ chunk # <<>>) =>
       /\ ~HasNL(chunk) =>
            /\ lines_out' = lines_out
            /\ UNCHANGED <<blk_active, blk_cpu_overall, blk_core_vals,
                           blk_dram_val, blk_gpu_val, block_queue>>
            /\ file_tail_rem' = file_tail_rem \o chunk
       /\ file_tail_path' => file_tail_rem' = AfterLastNL(file_tail_rem \o chunk)
\* C25: a poll whose chunk holds no newline hands no line to the parser and
\* leaves the active block and the queue as they were, its bytes going to the
\* end of the remainder; after any poll that leaves the tail running the
\* remainder is what follows the last newline, the empty string included.
C25_PartialLineHeld == [][C25_Step]_vars
C25_Witness ==
  /\ blk_active
  /\ blk_cpu_overall # None
  /\ Len(file_tail_rem) >= 2
  /\ file_tail_pos = Len(file)
  /\ block_queue # <<>>

\* ---- C26
C26_IdleStep ==
  (ParsedLine /\ ~blk_active /\ cur_line' # <<HDR>>) =>
     UNCHANGED <<blk_active, blk_cpu_overall, blk_core_vals, blk_dram_val,
                 blk_gpu_val, block_queue, next_block_due_epoch, block_timer_active>>
\* C26: while no block is active, a line that is not a block start (a line
\* matching the overall-CPU, core, DRAM or GPU pattern included) leaves the
\* block's fields, the active flag and the queue unchanged.
C26_NoiseIgnored == [][C26_IdleStep]_vars
\* C26 witness: two lines were parsed with no block active, the second a
\* GPU line, and nothing was recorded or committed.
C26_Witness ==
  /\ nlines = 2
  /\ MatchGpu(cur_line) = 5
  /\ BlockIsEmpty(FALSE)
  /\ block_queue = <<>>
  /\ ~block_timer_active

\* ---- C27
\* The pattern a line is taken by: the first that matches, in the order the
\* parser tries them.
FirstMatch(line) ==
  IF MatchCpu(line) # None THEN "cpu"
  ELSE IF MatchCore(line) # <<>> THEN "core"
  ELSE IF MatchDram(line) # None THEN "dram"
  ELSE IF MatchGpu(line) # None THEN "gpu"
  ELSE "none"
\* The fields of the block that a step changes.
ChangedFields ==
  (IF blk_cpu_overall' # blk_cpu_overall THEN {"cpu"} ELSE {})
    \cup (IF blk_core_vals' # blk_core_vals THEN {"core"} ELSE {})
    \cup (IF blk_dram_val' # blk_dram_val THEN {"dram"} ELSE {})
    \cup (IF blk_gpu_val' # blk_gpu_val THEN {"gpu"} ELSE {})
C27_ActiveStep ==
  (ParsedLine /\ blk_active /\ cur_line' # <<HDR>>) =>
     LET line == cur_line'
         m == FirstMatch(line)
     IN /\ m \in {"cpu", "core", "dram"} =>
             /\ ChangedFields \subseteq {m}
             /\ UNCHANGED <<blk_active, block_queue>>
        /\ m = "cpu" => blk_cpu_overall' = MatchCpu(line)
        /\ m = "core" => blk_core_vals'[MatchCore(line)[1]] = MatchCore(line)[2]
        /\ m = "dram" => blk_dram_val' = MatchDram(line)
        /\ m = "gpu" =>
             block_queue' =
               Append(block_queue,
                      Committed(blk_cpu_overall, blk_core_vals, blk_dram_val, MatchGpu(line)))
        /\ (m = "none" /\ ~IsBlank(line)) =>
             UNCHANGED <<blk_active, blk_cpu_overall, blk_core_vals, blk_dram_val,
                         blk_gpu_val, block_queue>>
\* C27: while a block is active, a line that is not a block start changes at
\* most one field of the block, the one of the first pattern it matches
\* (overall CPU, core, DRAM, GPU; the GPU value goes into the sample that the
\* line commits); a line that matches no pattern and is not blank leaves the
\* block, the active flag and the queue unchanged.
C27_OneFieldPerLine == [][C27_ActiveStep]_vars
\* C27 witness: an unmatched line was parsed while the block held overall CPU.
C27_Witness ==
  /\ nlines = 3
  /\ cur_line \in {<<X>>, <<CPU, X>>}
  /\ blk_active
  /\ blk_cpu_overall = 10
  /\ blk_core_vals = EmptyMap
  /\ block_queue = <<>>

\* ---- C28
C28_IdleTick ==
  (PacerTick /\ (block_queue = <<>> \/ next_block_due_epoch = None
                   \/ now < next_block_due_epoch)) =>
     UNCHANGED <<block_queue, file_block_idx, next_block_due_epoch, states,
                 core_states, block_timer_active>>
C28_StaysArmed == block_timer_active => block_timer_active'
\* C28: a tick that finds the queue empty, or the clock before the due time,
\* changes neither the queue, the block index, the due time nor any series;
\* and no step of a session disarms the pacer once it is armed.
C28_NoOpTick == [][C28_IdleTick /\ C28_StaysArmed]_vars
\* C28 witness: two samples have been emitted, the queue is empty, the clock
\* is before the due time and the pacer is still armed.
C28_Witness ==
  /\ block_timer_active
  /\ block_queue = <<>>
  /\ emit_k = 2
  /\ now < next_block_due_epoch
  /\ written = 3
  /\ Len(states["CPU"]) = 2

\* ---- C29
\* A step that takes a sample from the queue: an emission.
Emission == Len(block_queue') < Len(block_queue)
C29_Step ==
  /\ Emission =>
       /\ now >= next_block_due_epoch
       /\ next_block_due_epoch' = now + Interval
  /\ (~Emission /\ block_timer_active) => next_block_due_epoch' = next_block_due_epoch
\* C29: an emission happens at or after the due time and sets the due time
\* to its own time plus the interval, and once the pacer is armed nothing but
\* an emission changes the due time (an enqueue does not): so the emission
\* that follows comes at least one interval later, whatever is queued.
C29_WallClockCadence == [][C29_Step]_vars
\* C29 witness: the second emission of a backlog has just happened, one
\* interval or more after the start, with a sample still queued.
C29_Witness ==
  /\ emit_k = 2
  /\ block_queue # <<>>
  /\ now >= Interval
  /\ next_block_due_epoch = now + Interval
  /\ Len(states["CPU"]) = 2

\* ---- C30
\* Every sample the scripts commit.
AllSamples ==
  UNION { {WholeScript[i][k] : k \in 1 .. Len(WholeScript[i])} : i \in 1 .. Len(Scripts) }
InQueue(smp) == \E i \in 1 .. Len(block_queue) : block_queue[i] = smp
C30_Known == \A i \in 1 .. Len(block_queue) : block_queue[i] \in AllSamples
\* The next emission is due after the last instant the clock reaches.
DueBeyondHorizon == next_block_due_epoch # None /\ next_block_due_epoch > MaxTime
\* C30: in a session without a stop, with ticks occurring and the clock
\* advancing, every sample in the queue eventually leaves it, and it leaves
\* it only by an emission that appends it to the store; the one exception is
\* a sample whose turn is due after the last instant the clock reaches.
C30_BacklogDrains ==
  /\ []C30_Known
  /\ [][Emission => (PacerTick /\ SeriesGrows)]_vars
  /\ \A smp \in AllSamples : InQueue(smp) ~> (~InQueue(smp) \/ DueBeyondHorizon)
\* C30 witness: all three samples of the first script have been emitted, the
\* queue is empty and the pacer is still armed.
C30_Witness ==
  /\ script = 1
  /\ written = Len(Scripts[1])
  /\ block_queue = <<>>
  /\ block_timer_active
  /\ SeriesVals(states["GPU"]) = <<0, 5, 7>>

\* ---- C31
\* The values a field of the active block can hold.
FieldVals == {None} \cup (0 .. 200)
C31_WellFormed ==
  /\ file_tail_path
  /\ blk_active \in BOOLEAN
  /\ blk_cpu_overall \in FieldVals
  /\ blk_dram_val \in FieldVals
  /\ blk_gpu_val \in FieldVals
  /\ \A c \in DOMAIN blk_core_vals : blk_core_vals[c] \in FieldVals \ {None}
  /\ ~blk_active => BlockIsEmpty(FALSE)
C31_LineStep ==
  ParsedLine =>
     /\ UNCHANGED <<file_tail_path, file_tail_pos, file_tail_rem>>
     /\ block_timer_active => block_timer_active'
     /\ IsPrefix(block_queue, block_queue')
\* C31: whatever lines are parsed, in whatever order (repeated fields, a core
\* without a series, a block without a GPU line, repeated block starts,
\* unmatched text), after each line the parser is idle or active with
\* well-formed fields, the tail is still running, an armed pacer is still
\* armed and nothing has been taken from the queue.
C31_AnomaliesAbsorbed == []C31_WellFormed /\ [][C31_LineStep]_vars
\* C31 witness: a block start repeated after one field, then a core without a
\* series: one sample is queued, the block is active, the pacer is armed.
C31_Witness ==
  /\ file_tail_path
  /\ nlines = 4
  /\ cur_line = <<CORE(9), N(7)>>
  /\ blk_active
  /\ 9 \in DOMAIN blk_core_vals
  /\ Len(block_queue) = 1
  /\ block_timer_active

\* ---- C32
SampleHasField(smp) ==
  \/ smp.cpu_overall # None
  \/ DOMAIN smp.core_vals # {}
  \/ smp.dram_val # None
  \/ smp.gpu_val # None
\* C32: every sample in the queue has overall CPU, DRAM or GPU present or a
\* core value recorded.
C32_NoEmptySample == \A i \in 1 .. Len(block_queue) : SampleHasField(block_queue[i])
\* C32 witness: of four lines parsed, the last is a block start that flushed
\* a block holding only a value for a core without a series; nothing else
\* was enqueued.
C32_Witness ==
  /\ nlines = 4
  /\ cur_line = <<HDR>>
  /\ block_queue = << Committed(None, MapPut(EmptyMap, 9, 7), None, None) >>
  /\ BlockIsEmpty(TRUE)

\* ---- C33
\* The value each queued tuple and the block hold is the content of its object.
C33_Tied ==
  /\ Len(queue_core_refs) = Len(block_queue)
  /\ \A i \in 1 .. Len(block_queue) : heap[queue_core_refs[i]] = block_queue[i].core_vals
  /\ heap[blk_core_ref] = blk_core_vals
  /\ \A i \in 1 .. Len(queue_core_refs) : queue_core_refs[i] # blk_core_ref
C33_FrozenStep ==
  \A i \in 1 .. Len(block_queue) :
     /\ block_queue'[i] = block_queue[i]
     /\ queue_core_refs'[i] = queue_core_refs[i]
     /\ heap'[queue_core_refs[i]] = heap[queue_core_refs[i]]
\* C33: a queued sample shares no object with the active block, and no line
\* parsed afterwards changes a field of it or the content of its core map.
C33_CommittedFrozen == []C33_Tied /\ [][C33_FrozenStep]_vars
\* C33 witness: a block holding core 0 at 60 was flushed by a block start and
\* the new block then recorded core 0 at 70.
C33_Witness ==
  /\ nlines = 4
  /\ Len(block_queue) = 1
  /\ heap[queue_core_refs[1]] = MapPut(EmptyMap, 0, 60)
  /\ blk_active
  /\ heap[blk_core_ref] = MapPut(EmptyMap, 0, 70)

\* ---- C34
C34_MarkerStep ==
  LET chunk == SubSeq(file, file_tail_pos + 1, Len(file))
      lines == NewLines(Front(SplitNL(file_tail_rem \o chunk)))
      parsed == ParseStressLines(T, lines, now, ops)
  IN (Poll /\ file_tail_path /\ chunk # <<>> /\ \E i \in 1 .. Len(lines) : HasDone(lines[i])) =>
       /\ block_queue' = parsed.block_queue
       /\ blk_active' = parsed.blk_active
       /\ blk_cpu_overall' = parsed.blk_cpu_overall
       /\ blk_core_vals' = parsed.blk_core_vals
       /\ blk_dram_val' = parsed.blk_dram_val
       /\ blk_gpu_val' = parsed.blk_gpu_val
       /\ lines_out' = lines_out \o lines
       /\ ~file_tail_path'
C34_StoppedStep ==
  ~file_tail_path =>
     UNCHANGED <<file_tail_path, file_tail_pos, file_tail_rem, blk_active, blk_cpu_overall,
                 blk_core_vals, blk_dram_val, blk_gpu_val, block_queue, lines_out,
                 next_block_due_epoch, block_timer_active>>
\* C34: a poll that delivers a line holding the completion marker parses
\* all the lines it delivers, those after the marker included, and leaves the
\* tail inactive; while the tail is inactive no step reads a byte or changes
\* the parser or the queue.
C34_MarkerEndsTail == [][C34_MarkerStep /\ C34_StoppedStep]_vars
\* C34 witness: the poll that read the completion line also read the GPU
\* line after it, which committed the block; the bytes written after that
\* poll were never read.
C34_Witness ==
  /\ ~file_tail_path
  /\ written = Len(MarkedStream)
  /\ file_tail_pos = 11
  /\ block_queue = << Committed(10, EmptyMap, None, 5) >>
  /\ BlockIsEmpty(FALSE)
  /\ Len(lines_out) = 4

\* ---- C35
Between(v, a, b) == Min(a, b) <= v /\ v <= Max(a, b)
\* v is the exact interpolation of the ramp at time e, rounded to an integer.
RoundedOnLine(v, ramp, e) ==
  LET span == ramp[2] - ramp[1]
      diff == v * span - (ramp[3] * span + (ramp[4] - ramp[3]) * (e - ramp[1]))
  IN 2 * diff <= span /\ -2 * diff <= span
C35_CheckStep ==
  CheckScheduledChanges =>
     \A k \in DOMAIN active_harmonics :
        LET ramp == active_harmonics[k]
        IN /\ ramp[1] < ramp[2]
           /\ (ramp[1] <= elapsed_time /\ elapsed_time < ramp[2]) =>
                /\ ramp_calls'[k] # None
                /\ RoundedOnLine(ramp_calls'[k], ramp, elapsed_time)
                /\ Between(ramp_calls'[k], ramp[3], ramp[4])
                /\ k \in DOMAIN active_harmonics' /\ active_harmonics'[k] = ramp
           /\ elapsed_time >= ramp[2] =>
                /\ ramp_calls'[k] = ramp[4]
                /\ (k \notin DOMAIN active_harmonics' \/ active_harmonics'[k] # ramp)
\* C35: for every ramp in progress, a check at an elapsed time inside the
\* ramp applies the linear interpolation rounded to an integer, a value
\* between the ramp's start and end values, and keeps the ramp; a check at
\* or after the ramp's end applies the end value and removes the ramp.
C35_RampInterpolation == [][C35_CheckStep]_vars
\* C35 witness: a ramp from 50 to 35 over 120 s is half-way.
C35_Witness ==
  /\ elapsed_time = 66
  /\ "GPU" \in DOMAIN active_harmonics
  /\ active_harmonics["GPU"] = <<6, 126, 50, 35>>
  /\ ramp_calls["GPU"] = 42
  /\ target_percent["GPU"] = 42

\* ---- C36
RECURSIVE IsSubseq(_, _)
IsSubseq(a, b) ==
  IF a = <<>> THEN TRUE
  ELSE IF b = <<>> THEN FALSE
  ELSE IF Head(a) = Head(b) THEN IsSubseq(Tail(a), Tail(b))
  ELSE IsSubseq(a, Tail(b))
C36_Sequenced ==
  sc_called =>
     /\ sc_taken = SubSeq(sc_commands, 1, Len(sc_taken))
     /\ sc_queue = SubSeq(sc_commands, Len(sc_taken) + 1, Len(sc_commands))
     /\ sc_commands # <<>> => sc_taken # <<>>
     /\ IsSubseq(serial_out, sc_taken)
     /\ sc_completed <= 1
     /\ sc_completed = 1 => (sc_callback /\ sc_taken = sc_commands /\ ~sc_timer)
     /\ sc_timer => sc_completed = 0
     /\ (~sc_timer /\ sc_callback) => sc_completed = 1
C36_Step ==
  /\ Len(sc_taken') <= Len(sc_taken) + 1
  /\ sc_completed' > sc_completed => sc_taken' = sc_taken
  /\ Len(sc_taken') > Len(sc_taken) =>
       serial_out' = IF serial_open THEN Append(serial_out, Last(sc_taken')) ELSE serial_out
  /\ Len(sc_taken') = Len(sc_taken) => serial_out' = serial_out
\* C36: the commands are taken from the queue in list order, each position
\* once, the first within the call and then one per timer tick; each is
\* written to the port when it is taken, if the port is open; on_complete is
\* called once, by the call itself for an empty list and otherwise by the
\* tick that finds the queue empty, which also stops the timer.
C36_CommandSequencer == []C36_Sequenced /\ [][C36_Step]_vars
\* C36 witness: three commands, one of them twice in the list, have all been
\* written to the port and on_complete has been called.
C36_Witness ==
  /\ sc_commands = <<"a", "b", "a">>
  /\ serial_out = sc_commands
  /\ sc_completed = 1
  /\ ~sc_timer

\* ---- C37
\* The position of the first command that fails, 0 when none does.
FirstFailure(cmds) ==
  LET bad == {k \in 1 .. Len(cmds) : cmds[k][1] # 0}
  IN IF bad = {} THEN 0 ELSE CHOOSE k \in bad : \A j \in bad : k <= j
TextsTo(cmds, n, field) == [i \in 1 .. n |-> cmds[i][field]]
\* C37: with adb installed, the call runs the commands in order up to and
\* including the first whose exit code is not 0 and returns that code with
\* the outputs and the error outputs of the commands run, joined; it runs
\* them all and returns 0 when none fails; it never returns 0 otherwise.
C37_StopAtFirstFailure ==
  adb_result # NoResult =>
     LET k == FirstFailure(adb_commands)
         n == IF k = 0 THEN Len(adb_commands) ELSE k
     IN /\ adb_available =>
             /\ adb_ran = n
             /\ adb_result.code = (IF k = 0 THEN 0 ELSE adb_commands[k][1])
             /\ adb_result.out = Strip(JoinNL(TextsTo(adb_commands, n, 2)))
             /\ adb_result.err = Strip(JoinNL(TextsTo(adb_commands, n, 3)))
        /\ ~adb_available => (adb_ran = 0 /\ adb_result.code = 127)
        /\ adb_result.code = 0 =>
             (adb_ran = Len(adb_commands) /\ \A i \in 1 .. Len(adb_commands) : adb_commands[i][1] = 0)
\* C37 witness: of three commands the second timed out; the third was not
\* run and the output returned is the first command's.
C37_Witness ==
  /\ adb_result # NoResult
  /\ adb_commands = << <<0, <<X>>, <<>> >>, <<124, <<>>, <<X>> >>, <<0, <<X>>, <<>> >> >>
  /\ adb_ran = 2
  /\ adb_result.code = 124
  /\ adb_result.out = <<X>>
  /\ adb_result.err = <<X>>

====
